---- MODULE Spec2Model ----
(***************************************************************************)
(* Client side of the code-review platform: the axios client with its two  *)
(* interceptors, authService, AuthProvider, the useAnalysis polling hook    *)
(* and the Register form.  Every asynchronous function is split at its      *)
(* awaits: one action issues the request, one action per outcome runs the   *)
(* continuation up to the next await.                                       *)
(***************************************************************************)
EXTENDS Integers, FiniteSets, Sequences, TLC

\* ------------------------------------------------------------------ bounds
MaxRuns == 2          \* invocations of startAnalysis per hook instance
MaxInFlight == 2      \* status requests of one hook awaiting their answer
MaxAuthInFlight == 1  \* sign-ins, and other calls, awaiting their answer
MaxRegInFlight == 1   \* registrations awaiting their answer or their timer
MaxPwLen == 9         \* characters in a password input
MaxPollRuns == 1      \* invocations of startAnalysis while one poll loop is
                      \* followed
MaxFiles == 2         \* files in one call of uploadFiles
MaxUploads == 2       \* calls of uploadFiles

\* --------------------------------------------------------------- constants
Null == "null"

\* Failures of a request other than a 401: a 5xx answer or no answer at all.
FailKinds == {"500", "network"}

\* GET /analysis/results before any analysis of the project exists.
NotFound == "404"

\* err.message as axios builds it for a failure of that kind.
ErrMessage(kind) ==
  IF kind = "network" THEN "Network Error"
  ELSE "Request failed with status code " \o kind

Results == "results"

Runs == 1..MaxRuns

\* What GET /analysis/status may answer; "failed" is outside the enumeration
\* the hook knows (not_started | processing | completed).
BackendStatus == {"processing", "completed", "failed"}

\* A status request in flight is on its way to the backend ("sent") or its
\* answer is on its way back.
Phases == {"sent"} \cup BackendStatus

\* What a request can carry as token, and the user object of GET /auth/me.
Tokens == {"t1", "t2"}
UserData == "user"

\* Who started a checkAuth: the mount effect or the context login().
Callers == {"mount", "login"}

\* Routes; "/other" stands for every path App has no route for.
Paths == {"/", "/login", "/register", "/dashboard", "/other"}

\* No response handled yet on this page.
NoResp == [call |-> "none", kind |-> "none"]

\* Register.handleSubmit: formData.password.length < 8.
MinPasswordLength == 8

RECURSIVE Rep(_, _)
Rep(c, n) == IF n = 0 THEN <<>> ELSE <<c>> \o Rep(c, n - 1)

\* What may be typed or pasted into a password input: every length up to
\* MaxPwLen, and for each length a second string that differs in its last
\* character.
PasswordInputs ==
  {Rep("a", n) : n \in 0..MaxPwLen}
    \cup {Rep("a", n - 1) \o <<"b">> : n \in 1..MaxPwLen}

VARIABLES
  \* useAnalysis: the four useState cells
  analysis, status, loading, error,
  \* useAnalysis: the asynchronous activity of the hook
  mounted,      \* the owning view is still on screen
  nRuns,        \* invocations of startAnalysis so far
  runReq,       \* per invocation: "idle", "pending", "ok" or "failed"
  runPosts,     \* per invocation: POST /analysis/run requests issued
  timers,       \* per invocation: the interval made by its pollStatus is active
  statusReqs,   \* status requests in flight: per invocation and per phase
                \* ("sent", or the answer on its way back), how many
  fetchInFlight,\* results fetches in flight
  job,          \* the backend's job for the project
  stopSeen,     \* a 'completed' answer or a status failure was handled since
                \* the last invocation of startAnalysis
  doneSeen      \* per invocation: its poll loop handled a 'completed' answer

VARIABLES
  \* localStorage and window.location
  token,        \* localStorage 'token': Null or a token
  path,         \* the route on screen
  reloadPending,\* window.location.href was assigned: the page will reload
  \* AuthProvider
  user, authLoading,
  \* Login page
  loginError, loginLoading,
  \* requests of the API client awaiting their answer
  meReqs,       \* GET /auth/me, per caller ("mount", "login"): how many
  loginReqs,    \* POST /auth/login: how many
  otherReqs,    \* any other call of the client: how many
  \* the response handled last: which call, which outcome, how often its
  \* handling assigned window.location.href, whether it removed the token
  lastResp, respRedirects, respCleared,
  \* the Authorization header of the request sent last on this page
  sentAuth

VARIABLES
  \* useAnalysis across a change of its projectId argument
  projectId,    \* the argument of the latest render
  oldRuns,      \* invocations of startAnalysis made for an earlier projectId
  oldFetches    \* results fetches in flight issued for an earlier projectId

VARIABLES
  \* projectService.uploadFiles: the arguments of every call made so far, in
  \* order, and the requests the client has been handed so far, in order
  uploadCalls, posts

VARIABLES
  \* the score shown on the dashboard and the label rendered for it
  score, label

VARIABLES
  \* Register page: formData.password, formData.confirmPassword, the three
  \* useState cells, the register requests in flight, the pending
  \* setTimeout(() => navigate('/login')) calls
  formPassword, formConfirm, regError, regSuccess, regLoading,
  regInFlight, navTimers

hookVars == <<analysis, status, loading, error, mounted, nRuns, runReq,
              runPosts, timers, statusReqs, fetchInFlight,
              job, stopSeen, doneSeen>>

authVars == <<token, path, reloadPending, user, authLoading, loginError,
              loginLoading, meReqs, loginReqs, otherReqs, lastResp,
              respRedirects, respCleared, sentAuth>>

regVars == <<formPassword, formConfirm, regError, regSuccess, regLoading,
             regInFlight, navTimers>>

projVars == <<projectId, oldRuns, oldFetches>>

uploadVars == <<uploadCalls, posts>>

labelVars == <<score, label>>

otherVars == <<projVars, uploadVars, labelVars>>

vars == <<hookVars, authVars, regVars, otherVars>>

\* ------------------------------------------------------------ useAnalysis

\* useState initial values, then the mount effect: projectId is set, so
\* fetchResults() is already awaiting its request.
InitHook ==
  /\ analysis = Null
  /\ status = "not_started"
  /\ loading = FALSE
  /\ error = Null
  /\ mounted = TRUE
  /\ nRuns = 0
  /\ runReq = [r \in Runs |-> "idle"]
  /\ runPosts = [r \in Runs |-> 0]
  /\ timers = [r \in Runs |-> FALSE]
  /\ statusReqs = [r \in Runs |-> [p \in Phases |-> 0]]
  /\ fetchInFlight = 1
  /\ job = "not_started"
  /\ stopSeen = FALSE
  /\ doneSeen = [r \in Runs |-> FALSE]

\* fetchResults up to its await: one GET /analysis/results.
fetchResultsCall ==
  fetchInFlight' = fetchInFlight + 1

\* Faulty variant of startAnalysis: setStatus('processing') moved before the await.
startAnalysis_EagerStatus ==
  /\ mounted
  /\ nRuns < MaxRuns
  /\ nRuns' = nRuns + 1
  /\ loading' = TRUE
  /\ error' = Null
  /\ status' = "processing"
  /\ runReq' = [runReq EXCEPT ![nRuns + 1] = "pending"]
  /\ runPosts' = [runPosts EXCEPT ![nRuns + 1] = @ + 1]
  /\ stopSeen' = FALSE
  /\ UNCHANGED <<analysis, mounted, timers, statusReqs,
                 fetchInFlight, job, doneSeen>>
  /\ UNCHANGED <<authVars, regVars, otherVars>>

\* startAnalysis up to its await: setLoading(true), setError(null), one POST.
startAnalysis ==
  /\ mounted
  /\ nRuns < MaxRuns
  /\ nRuns' = nRuns + 1
  /\ loading' = TRUE
  /\ error' = Null
  /\ runReq' = [runReq EXCEPT ![nRuns + 1] = "pending"]
  /\ runPosts' = [runPosts EXCEPT ![nRuns + 1] = @ + 1]
  /\ stopSeen' = FALSE
  /\ UNCHANGED <<analysis, status, mounted, timers, statusReqs,
                 fetchInFlight, job, doneSeen>>
  /\ UNCHANGED <<authVars, regVars, otherVars>>

\* pollStatus: setInterval(...) makes the interval of invocation r.
pollStatus(r) ==
  timers' = [timers EXCEPT ![r] = TRUE]

\* startAnalysis after its await resolved: setStatus('processing'), pollStatus().
startAnalysisThen(r) ==
  /\ status' = "processing"
  /\ pollStatus(r)
  /\ UNCHANGED <<loading, error>>

\* Faulty variant of startAnalysisCatch: polling is started all the same.
startAnalysisCatch_StartsPolling(r, kind) ==
  /\ error' = ErrMessage(kind)
  /\ loading' = FALSE
  /\ pollStatus(r)
  /\ UNCHANGED <<status>>

\* startAnalysis after its await rejected: the catch block.
startAnalysisCatch(r, kind) ==
  /\ error' = ErrMessage(kind)
  /\ loading' = FALSE
  /\ UNCHANGED <<status, timers>>

\* POST /analysis/run answered 2xx: the backend has started the job.
RunOk(r) ==
  /\ runReq[r] = "pending"
  /\ runReq' = [runReq EXCEPT ![r] = "ok"]
  /\ job' = "processing"
  /\ startAnalysisThen(r)
  /\ UNCHANGED <<analysis, mounted, nRuns, runPosts, statusReqs,
                 fetchInFlight, stopSeen, doneSeen>>
  /\ UNCHANGED <<authVars, regVars, otherVars>>

RunFail(r, kind) ==
  /\ runReq[r] = "pending"
  /\ runReq' = [runReq EXCEPT ![r] = "failed"]
  /\ startAnalysisCatch(r, kind)
  /\ UNCHANGED <<analysis, mounted, nRuns, runPosts, statusReqs,
                 fetchInFlight, job, stopSeen, doneSeen>>
  /\ UNCHANGED <<authVars, regVars, otherVars>>

\* The backend finishes the job.
BackendFinish ==
  /\ job = "processing"
  /\ job' = "completed"
  /\ UNCHANGED <<analysis, status, loading, error, mounted, nRuns, runReq,
                 runPosts, timers, statusReqs, fetchInFlight,
                 stopSeen, doneSeen>>
  /\ UNCHANGED <<authVars, regVars, otherVars>>

RECURSIVE SumTo(_, _)
SumTo(f, n) == IF n = 0 THEN 0 ELSE f[n] + SumTo(f, n - 1)

\* Status requests of the hook that await their answer.
InFlight ==
  SumTo([r \in Runs |->
           statusReqs[r]["sent"] + statusReqs[r]["processing"]
             + statusReqs[r]["completed"] + statusReqs[r]["failed"]], MaxRuns)

\* The backend gives the job up: from then on it reports 'failed'.
BackendFail ==
  /\ job = "processing"
  /\ job' = "failed"
  /\ UNCHANGED <<analysis, status, loading, error, mounted, nRuns, runReq,
                 runPosts, timers, statusReqs, fetchInFlight,
                 stopSeen, doneSeen>>
  /\ UNCHANGED <<authVars, regVars, otherVars>>

\* The interval of invocation r fires: the callback runs up to its await,
\* whether or not an earlier callback is still awaiting its answer.
Tick(r) ==
  /\ timers[r]
  /\ InFlight < MaxInFlight
  /\ statusReqs' = [statusReqs EXCEPT ![r]["sent"] = @ + 1]
  /\ UNCHANGED <<analysis, status, loading, error, mounted, nRuns, runReq,
                 runPosts, timers, fetchInFlight, job,
                 stopSeen, doneSeen>>
  /\ UNCHANGED <<authVars, regVars, otherVars>>

\* The backend answers a status request with the job's state at that moment.
ServerStatus(r) ==
  /\ statusReqs[r]["sent"] > 0
  /\ job \in BackendStatus
  /\ statusReqs' = [statusReqs EXCEPT ![r]["sent"] = @ - 1, ![r][job] = @ + 1]
  /\ UNCHANGED <<analysis, status, loading, error, mounted, nRuns, runReq,
                 runPosts, timers, fetchInFlight,
                 job, stopSeen, doneSeen>>
  /\ UNCHANGED <<authVars, regVars, otherVars>>

\* Faulty variant of pollStatusThen: 'completed' stops the interval but the results
\* are never fetched.
pollStatusThen_NoFetch(r, v) ==
  /\ status' = v
  /\ IF v = "completed"
       THEN /\ timers' = [timers EXCEPT ![r] = FALSE]
            /\ UNCHANGED <<fetchInFlight>>
       ELSE UNCHANGED <<timers, fetchInFlight>>
  /\ UNCHANGED <<loading, error>>

\* Faulty variant of pollStatusThen: 'failed' stops the interval as well.
pollStatusThen_StopsOnFailed(r, v) ==
  /\ status' = v
  /\ IF v = "completed"
       THEN /\ timers' = [timers EXCEPT ![r] = FALSE]
            /\ fetchResultsCall
       ELSE /\ timers' = [timers EXCEPT ![r] = (@ /\ v # "failed")]
            /\ UNCHANGED <<fetchInFlight>>
  /\ UNCHANGED <<loading, error>>

\* The interval callback after its await resolved with statusData.status = v.
pollStatusThen(r, v) ==
  /\ status' = v
  /\ IF v = "completed"
       THEN /\ timers' = [timers EXCEPT ![r] = FALSE]
            /\ fetchResultsCall
       ELSE UNCHANGED <<timers, fetchInFlight>>
  /\ UNCHANGED <<loading, error>>

\* Faulty variant of pollStatusCatch: the catch block also resets status.
pollStatusCatch_ResetsStatus(r, kind) ==
  /\ timers' = [timers EXCEPT ![r] = FALSE]
  /\ error' = ErrMessage(kind)
  /\ loading' = FALSE
  /\ status' = "not_started"
  /\ UNCHANGED <<fetchInFlight>>

\* The interval callback after its await rejected: the catch block.
pollStatusCatch(r, kind) ==
  /\ timers' = [timers EXCEPT ![r] = FALSE]
  /\ error' = ErrMessage(kind)
  /\ loading' = FALSE
  /\ UNCHANGED <<status, fetchInFlight>>

StatusResp(r, v) ==
  /\ statusReqs[r][v] > 0
  /\ statusReqs' = [statusReqs EXCEPT ![r][v] = @ - 1]
  /\ pollStatusThen(r, v)
  /\ stopSeen' = (stopSeen \/ v = "completed")
  /\ doneSeen' = [doneSeen EXCEPT ![r] = @ \/ v = "completed"]
  /\ UNCHANGED <<analysis, mounted, nRuns, runReq, runPosts,
                 job>>
  /\ UNCHANGED <<authVars, regVars, otherVars>>

StatusFail(r, p, kind) ==
  /\ statusReqs[r][p] > 0
  /\ statusReqs' = [statusReqs EXCEPT ![r][p] = @ - 1]
  /\ pollStatusCatch(r, kind)
  /\ stopSeen' = TRUE
  /\ UNCHANGED <<analysis, mounted, nRuns, runReq, runPosts,
                 job, doneSeen>>
  /\ UNCHANGED <<authVars, regVars, otherVars>>

\* fetchResults after its await resolved.
fetchResultsThen ==
  /\ analysis' = Results
  /\ loading' = FALSE
  /\ UNCHANGED <<status, error>>

\* fetchResults after its await rejected: its own catch block.
fetchResultsCatch(kind) ==
  /\ error' = ErrMessage(kind)
  /\ loading' = FALSE
  /\ UNCHANGED <<analysis, status>>

\* GET /analysis/results of the current project answered.
FetchOk ==
  /\ fetchInFlight > oldFetches
  /\ fetchInFlight' = fetchInFlight - 1
  /\ fetchResultsThen
  /\ UNCHANGED <<mounted, nRuns, runReq, runPosts, timers,
                 statusReqs, job, stopSeen, doneSeen>>
  /\ UNCHANGED <<authVars, regVars, otherVars>>

FetchFail(kind) ==
  /\ fetchInFlight > oldFetches
  /\ fetchInFlight' = fetchInFlight - 1
  /\ fetchResultsCatch(kind)
  /\ UNCHANGED <<mounted, nRuns, runReq, runPosts, timers,
                 statusReqs, job, stopSeen, doneSeen>>
  /\ UNCHANGED <<authVars, regVars, otherVars>>

\* The owning view is torn down.  The mount effect returns no cleanup and the
\* function pollStatus returns is dropped, so nothing of the hook changes.
Unmount ==
  /\ mounted
  /\ mounted' = FALSE
  /\ UNCHANGED <<analysis, status, loading, error, nRuns, runReq, runPosts,
                 timers, statusReqs, fetchInFlight,
                 job, stopSeen, doneSeen>>
  /\ UNCHANGED <<authVars, regVars, otherVars>>

NextHook ==
  \/ startAnalysis
  \/ \E r \in Runs : RunOk(r)
  \/ \E r \in Runs, k \in FailKinds : RunFail(r, k)
  \/ BackendFinish
  \/ \E r \in Runs : Tick(r)
  \/ \E r \in Runs : ServerStatus(r)
  \/ \E r \in Runs, v \in BackendStatus : StatusResp(r, v)
  \/ \E r \in Runs, p \in Phases, k \in FailKinds : StatusFail(r, p, k)
  \/ FetchOk
  \/ \E k \in FailKinds : FetchFail(k)

\* The hook before any view has mounted it.
HookIdle ==
  /\ analysis = Null
  /\ status = "not_started"
  /\ loading = FALSE
  /\ error = Null
  /\ mounted = FALSE
  /\ nRuns = 0
  /\ runReq = [r \in Runs |-> "idle"]
  /\ runPosts = [r \in Runs |-> 0]
  /\ timers = [r \in Runs |-> FALSE]
  /\ statusReqs = [r \in Runs |-> [p \in Phases |-> 0]]
  /\ fetchInFlight = 0
  /\ job = "not_started"
  /\ stopSeen = FALSE
  /\ doneSeen = [r \in Runs |-> FALSE]

\* ------------------------------------------- api client, authService, pages

\* No Authorization header on a request; no request sent yet on this page.
NoHeader == "no header"
NotSent == "not sent"

\* Faulty variant of requestInterceptor: the token is sent without its scheme.
requestInterceptor_NoScheme(tok) ==
  IF tok # Null THEN tok ELSE NoHeader

\* The request interceptor: the Authorization header it leaves on a request
\* sent while localStorage holds tok.
requestInterceptor(tok) ==
  IF tok # Null THEN "Bearer " \o tok ELSE NoHeader

\* What the handling of one response has done so far to localStorage and to
\* window.location: the token left in storage, the assignments of
\* window.location.href, whether removeItem('token') ran.
NoEffect == [tok |-> token, redirects |-> 0, cleared |-> FALSE]

\* The response interceptor's error handler.
responseInterceptor(kind, e) ==
  IF kind = "401"
    THEN [tok |-> Null, redirects |-> e.redirects + 1, cleared |-> TRUE]
    ELSE e

\* authService.logout.
authService_logout(e) ==
  [tok |-> Null, redirects |-> e.redirects + 1, cleared |-> TRUE]

\* authService.isAuthenticated on a stored value.
isAuthenticated(tok) == tok # Null

\* Writes the effect of handling one response of `call`.
Handled(call, kind, e) ==
  /\ token' = e.tok
  /\ reloadPending' = (reloadPending \/ e.redirects > 0)
  /\ lastResp' = [call |-> call, kind |-> kind]
  /\ respRedirects' = e.redirects
  /\ respCleared' = e.cleared

\* checkAuth after its await: setUser on success; on any failure the catch
\* block calls authService.logout(), after the interceptor has run.
checkAuthEffect(kind) ==
  IF kind = "200" THEN NoEffect
  ELSE authService_logout(responseInterceptor(kind, NoEffect))

\* AuthProvider right after the page has loaded with `tok` in storage: user
\* null, and checkAuth run up to its await (no token: it has already ended).
Mounted(tok) ==
  /\ token = tok
  /\ user = Null
  /\ authLoading = isAuthenticated(tok)
  /\ meReqs = [o \in Callers |-> IF o = "mount" /\ isAuthenticated(tok)
                                   THEN 1 ELSE 0]
  /\ loginReqs = 0
  /\ otherReqs = 0
  /\ loginError = ""
  /\ loginLoading = FALSE
  /\ reloadPending = FALSE
  /\ lastResp = NoResp
  /\ respRedirects = 0
  /\ respCleared = FALSE
  /\ sentAuth = IF isAuthenticated(tok) THEN requestInterceptor(tok)
                ELSE NotSent

InitAuth ==
  /\ path \in Paths
  /\ \E tok \in {Null} \cup Tokens : Mounted(tok)

\* A signed-in user on the dashboard, no request pending.
AuthIdle ==
  /\ path = "/dashboard"
  /\ token = "t1"
  /\ user = UserData
  /\ authLoading = FALSE
  /\ meReqs = [o \in Callers |-> 0]
  /\ loginReqs = 0
  /\ otherReqs = 0
  /\ loginError = ""
  /\ loginLoading = FALSE
  /\ reloadPending = FALSE
  /\ lastResp = NoResp
  /\ respRedirects = 0
  /\ respCleared = FALSE
  /\ sentAuth = NotSent

\* PublicRoute shows its children (Login, Register).
PublicShown == ~authLoading /\ user = Null

\* Faulty variant of MeResp: checkAuth has no finally, a failure leaves the
\* loading flag as it is.
MeResp_NoFinally(o, kind) ==
  /\ meReqs[o] > 0
  /\ meReqs' = [meReqs EXCEPT ![o] = @ - 1]
  /\ Handled("me", kind, checkAuthEffect(kind))
  /\ user' = IF kind = "200" THEN UserData ELSE user
  /\ authLoading' = IF kind = "200" THEN FALSE ELSE authLoading
  /\ IF o = "login"
       THEN path' = "/dashboard" /\ loginLoading' = FALSE
       ELSE UNCHANGED <<path, loginLoading>>
  /\ UNCHANGED <<loginError, loginReqs, otherReqs, sentAuth>>
  /\ UNCHANGED <<hookVars, regVars, otherVars>>

\* GET /auth/me answered, for the checkAuth started by o.  When o is the
\* context login(), Login.handleSubmit goes on: navigate('/dashboard') and
\* setLoading(false).
MeResp(o, kind) ==
  /\ meReqs[o] > 0
  /\ meReqs' = [meReqs EXCEPT ![o] = @ - 1]
  /\ Handled("me", kind, checkAuthEffect(kind))
  /\ user' = IF kind = "200" THEN UserData ELSE user
  /\ authLoading' = FALSE
  /\ IF o = "login"
       THEN path' = "/dashboard" /\ loginLoading' = FALSE
       ELSE UNCHANGED <<path, loginLoading>>
  /\ UNCHANGED <<loginError, loginReqs, otherReqs, sentAuth>>
  /\ UNCHANGED <<hookVars, regVars, otherVars>>

\* Login.handleSubmit up to its await.
Login_handleSubmit ==
  /\ path = "/login"
  /\ PublicShown
  /\ loginReqs + meReqs["login"] < MaxAuthInFlight
  /\ loginError' = ""
  /\ loginLoading' = TRUE
  /\ loginReqs' = loginReqs + 1
  /\ sentAuth' = requestInterceptor(token)
  /\ UNCHANGED <<token, path, reloadPending, user, authLoading, meReqs,
                 otherReqs, lastResp, respRedirects, respCleared>>
  /\ UNCHANGED <<hookVars, regVars, otherVars>>

\* POST /auth/login answered 2xx with access_token t: authService.login
\* stores it, then the context login() runs checkAuth up to its await.
LoginOk(t) ==
  /\ loginReqs > 0
  /\ loginReqs' = loginReqs - 1
  /\ Handled("login", "200", [NoEffect EXCEPT !.tok = t])
  /\ meReqs' = [meReqs EXCEPT !["login"] = @ + 1]
  /\ sentAuth' = requestInterceptor(t)
  /\ UNCHANGED <<path, user, authLoading, loginError, loginLoading, otherReqs>>
  /\ UNCHANGED <<hookVars, regVars, otherVars>>

\* POST /auth/login failed: the interceptor, then the catch block of
\* Login.handleSubmit (the answer carries no detail: the default message) and
\* its finally.
LoginFail(kind) ==
  /\ loginReqs > 0
  /\ loginReqs' = loginReqs - 1
  /\ Handled("login", kind, responseInterceptor(kind, NoEffect))
  /\ loginError' = "Login failed. Please try again."
  /\ loginLoading' = FALSE
  /\ UNCHANGED <<path, user, authLoading, meReqs, otherReqs, sentAuth>>
  /\ UNCHANGED <<hookVars, regVars, otherVars>>

\* Any other call of the client (projectService, analysisService,
\* authService.register) is sent.
OtherCall ==
  /\ otherReqs < MaxAuthInFlight
  /\ otherReqs' = otherReqs + 1
  /\ sentAuth' = requestInterceptor(token)
  /\ UNCHANGED <<token, path, reloadPending, user, authLoading, loginError,
                 loginLoading, meReqs, loginReqs, lastResp, respRedirects,
                 respCleared>>
  /\ UNCHANGED <<hookVars, regVars, otherVars>>

\* ... and answered: only the interceptor touches the session.
OtherResp(kind) ==
  /\ otherReqs > 0
  /\ otherReqs' = otherReqs - 1
  /\ Handled("other", kind, responseInterceptor(kind, NoEffect))
  /\ UNCHANGED <<path, user, authLoading, loginError, loginLoading, meReqs,
                 loginReqs, sentAuth>>
  /\ UNCHANGED <<hookVars, regVars, otherVars>>

\* The context logout(): authService.logout(), then setUser(null).
logout ==
  /\ user # Null
  /\ token' = Null
  /\ reloadPending' = TRUE
  /\ user' = Null
  /\ UNCHANGED <<path, authLoading, loginError, loginLoading, meReqs,
                 loginReqs, otherReqs, lastResp, respRedirects, respCleared,
                 sentAuth>>
  /\ UNCHANGED <<hookVars, regVars, otherVars>>

\* What a route renders: a spinner, its children, or a <Navigate> (its path).
Spinner == "spinner"
Children == "children"

\* Faulty variant of ProtectedRoute: the loading flag is not looked at.
ProtectedRoute_IgnoresLoading(ld, isAuth) ==
  IF isAuth THEN Children ELSE "/login"

\* ProtectedRoute, given the context's loading and isAuthenticated.
ProtectedRoute(ld, isAuth) ==
  IF ld THEN Spinner
  ELSE IF isAuth THEN Children ELSE "/login"

\* Faulty variant of PublicRoute: it redirects whoever the visitor is.
PublicRoute_AlwaysRedirects(ld, isAuth) ==
  IF ld THEN Spinner ELSE "/dashboard"

\* PublicRoute.
PublicRoute(ld, isAuth) ==
  IF ld THEN Spinner
  ELSE IF ~isAuth THEN Children ELSE "/dashboard"

\* The element App renders for the path on screen; the context's
\* isAuthenticated is !!user.
Element ==
  IF path \in {"/login", "/register"}
    THEN PublicRoute(authLoading, user # Null)
  ELSE IF path = "/dashboard" THEN ProtectedRoute(authLoading, user # Null)
  ELSE IF path = "/" THEN Children
  ELSE "/"

\* Where the rendered element sends the router: the path of a <Navigate>,
\* the path on screen otherwise.
RouteTarget ==
  IF Element \in {Spinner, Children} THEN path ELSE Element

Navigate ==
  /\ RouteTarget # path
  /\ path' = RouteTarget
  /\ UNCHANGED <<token, reloadPending, user, authLoading, loginError,
                 loginLoading, meReqs, loginReqs, otherReqs, lastResp,
                 respRedirects, respCleared, sentAuth>>
  /\ UNCHANGED <<hookVars, regVars, otherVars>>

\* The assignment of window.location.href takes effect: the page is loaded
\* anew at /login, the requests of the old page are dropped.
Reload ==
  /\ reloadPending
  /\ path' = "/login"
  /\ token' = token
  /\ user' = Null
  /\ authLoading' = isAuthenticated(token)
  /\ meReqs' = [o \in Callers |-> IF o = "mount" /\ isAuthenticated(token)
                                    THEN 1 ELSE 0]
  /\ loginReqs' = 0
  /\ otherReqs' = 0
  /\ loginError' = ""
  /\ loginLoading' = FALSE
  /\ reloadPending' = FALSE
  /\ lastResp' = NoResp
  /\ respRedirects' = 0
  /\ respCleared' = FALSE
  /\ sentAuth' = IF isAuthenticated(token) THEN requestInterceptor(token)
                 ELSE NotSent
  /\ UNCHANGED <<hookVars, regVars, otherVars>>

NextAuth ==
  \/ \E o \in Callers, k \in {"200", "401"} \cup FailKinds : MeResp(o, k)
  \/ Login_handleSubmit
  \/ \E t \in Tokens : LoginOk(t)
  \/ \E k \in {"401"} \cup FailKinds : LoginFail(k)
  \/ OtherCall
  \/ \E k \in {"200", "401"} \cup FailKinds : OtherResp(k)
  \/ logout
  \/ Navigate
  \/ Reload

\* ------------------------------------------------------------ Register

\* Faulty variant of ValidationError: the length check is off by one.
ValidationError_OffByOne(password, confirmPassword) ==
  IF password # confirmPassword THEN "Passwords do not match"
  ELSE IF Len(password) < MinPasswordLength - 1
    THEN "Password must be at least 8 characters"
  ELSE ""

\* The validation of Register.handleSubmit: the message it sets, "" for none.
ValidationError(password, confirmPassword) ==
  IF password # confirmPassword THEN "Passwords do not match"
  ELSE IF Len(password) < MinPasswordLength
    THEN "Password must be at least 8 characters"
  ELSE ""

InitReg ==
  /\ formPassword = <<>>
  /\ formConfirm = <<>>
  /\ regError = ""
  /\ regSuccess = FALSE
  /\ regLoading = FALSE
  /\ regInFlight = 0
  /\ navTimers = 0

\* The Register page is on screen.
RegisterShown == path = "/register" /\ PublicShown

\* onChange of the two password inputs.
SetPassword(v) ==
  /\ RegisterShown
  /\ formPassword' = v
  /\ UNCHANGED <<formConfirm, regError, regSuccess, regLoading, regInFlight,
                 navTimers>>
  /\ UNCHANGED <<hookVars, authVars, otherVars>>

SetConfirmPassword(v) ==
  /\ RegisterShown
  /\ formConfirm' = v
  /\ UNCHANGED <<formPassword, regError, regSuccess, regLoading, regInFlight,
                 navTimers>>
  /\ UNCHANGED <<hookVars, authVars, otherVars>>

\* Register.handleSubmit up to its await, or to its early return.
Register_handleSubmit ==
  /\ RegisterShown
  /\ LET e == ValidationError(formPassword, formConfirm) IN
       IF e # ""
         THEN /\ regError' = e
              /\ UNCHANGED <<regLoading, regInFlight>>
         ELSE /\ regInFlight + navTimers < MaxRegInFlight
              /\ regError' = ""
              /\ regLoading' = TRUE
              /\ regInFlight' = regInFlight + 1
  /\ UNCHANGED <<formPassword, formConfirm, regSuccess, navTimers>>
  /\ UNCHANGED <<hookVars, authVars, otherVars>>

\* POST /auth/register answered 2xx: setSuccess(true), setTimeout(navigate),
\* and the finally block.
RegisterOk ==
  /\ regInFlight > 0
  /\ regInFlight' = regInFlight - 1
  /\ regSuccess' = TRUE
  /\ navTimers' = navTimers + 1
  /\ regLoading' = FALSE
  /\ UNCHANGED <<formPassword, formConfirm, regError>>
  /\ UNCHANGED <<hookVars, authVars, otherVars>>

\* POST /auth/register failed, with or without a detail in the answer.
RegisterFail(detail) ==
  /\ regInFlight > 0
  /\ regInFlight' = regInFlight - 1
  /\ regError' = IF detail = Null THEN "Registration failed. Please try again."
                 ELSE detail
  /\ regLoading' = FALSE
  /\ UNCHANGED <<formPassword, formConfirm, regSuccess, navTimers>>
  /\ UNCHANGED <<hookVars, authVars, otherVars>>

\* The 2-second timer fires: navigate('/login').
NavTimer ==
  /\ navTimers > 0
  /\ navTimers' = navTimers - 1
  /\ path' = "/login"
  /\ UNCHANGED <<formPassword, formConfirm, regError, regSuccess, regLoading,
                 regInFlight>>
  /\ UNCHANGED <<hookVars, token, reloadPending, user, authLoading,
                 loginError, loginLoading, meReqs, loginReqs, otherReqs,
                 lastResp, respRedirects, respCleared, sentAuth, otherVars>>

NextReg ==
  \/ \E v \in PasswordInputs : SetPassword(v)
  \/ \E v \in PasswordInputs : SetConfirmPassword(v)
  \/ Register_handleSubmit
  \/ RegisterOk
  \/ \E d \in {Null, "Username already registered"} : RegisterFail(d)
  \/ NavTimer

\* ------------------------------------- useAnalysis: change of projectId

ProjectIds == {"A", "B"}

\* The hook as first rendered: nothing belongs to an earlier projectId.
InitProj ==
  /\ projectId = "A"
  /\ oldRuns = 0
  /\ oldFetches = 0

\* The owning view renders the hook with another projectId.  The effect
\* [projectId] runs again: fetchResults() for the new project.  The effect
\* has no cleanup and the four state cells are not reset, so every request
\* and every interval of the earlier project stays as it is.
ChangeProject ==
  /\ mounted
  /\ projectId = "A"
  /\ projectId' = "B"
  /\ oldRuns' = nRuns
  /\ oldFetches' = fetchInFlight
  /\ fetchResultsCall
  /\ UNCHANGED <<analysis, status, loading, error, mounted, nRuns, runReq,
                 runPosts, timers, statusReqs, job, stopSeen, doneSeen>>
  /\ UNCHANGED <<authVars, regVars, uploadVars, labelVars>>

\* A results fetch issued for the earlier project is answered: the same
\* continuation of fetchResults, on the same state cells.
StaleFetchOk ==
  /\ oldFetches > 0
  /\ oldFetches' = oldFetches - 1
  /\ fetchInFlight' = fetchInFlight - 1
  /\ fetchResultsThen
  /\ UNCHANGED <<mounted, nRuns, runReq, runPosts, timers,
                 statusReqs, job, stopSeen, doneSeen>>
  /\ UNCHANGED <<projectId, oldRuns>>
  /\ UNCHANGED <<authVars, regVars, uploadVars, labelVars>>

StaleFetchFail(kind) ==
  /\ oldFetches > 0
  /\ oldFetches' = oldFetches - 1
  /\ fetchInFlight' = fetchInFlight - 1
  /\ fetchResultsCatch(kind)
  /\ UNCHANGED <<mounted, nRuns, runReq, runPosts, timers,
                 statusReqs, job, stopSeen, doneSeen>>
  /\ UNCHANGED <<projectId, oldRuns>>
  /\ UNCHANGED <<authVars, regVars, uploadVars, labelVars>>

\* ------------------------------------------- projectService.uploadFiles

\* The File objects a caller may pass.
Files == {"f1", "f2"}

RECURSIVE SeqsUpTo(_, _)
SeqsUpTo(S, n) ==
  IF n = 0 THEN {<<>>}
  ELSE LET shorter == SeqsUpTo(S, n - 1) IN
         shorter \cup {Append(q, x) : q \in shorter, x \in S}

\* The lists of files a caller may pass, the empty list included.
FileLists == SeqsUpTo(Files, MaxFiles)

\* files.forEach(file => formData.append('files', file)) on the form data fd.
RECURSIVE forEachAppend(_, _)
forEachAppend(fd, fs) ==
  IF fs = <<>> THEN fd
  ELSE forEachAppend(Append(fd, <<"files", Head(fs)>>), Tail(fs))

\* Faulty variant of uploadFiles: an empty list is skipped.
uploadFiles_SkipsEmpty(pid, fs) ==
  IF fs = <<>> THEN <<>>
  ELSE <<[method |-> "POST",
          url |-> "/projects/" \o pid \o "/upload",
          data |-> forEachAppend(<<>>, fs)]>>

\* uploadFiles up to its await: the requests it hands to the client.
uploadFiles(pid, fs) ==
  <<[method |-> "POST",
     url |-> "/projects/" \o pid \o "/upload",
     data |-> forEachAppend(<<>>, fs)]>>

UploadIdle ==
  /\ uploadCalls = <<>>
  /\ posts = <<>>

\* A caller invokes uploadFiles(pid, fs).
UploadFiles(pid, fs) ==
  /\ Len(uploadCalls) < MaxUploads
  /\ uploadCalls' = Append(uploadCalls, [projectId |-> pid, files |-> fs])
  /\ posts' = posts \o uploadFiles(pid, fs)
  /\ UNCHANGED <<hookVars, authVars, regVars, projVars, labelVars>>

NextUpload ==
  \E pid \in ProjectIds, fs \in FileLists : UploadFiles(pid, fs)

\* ------------------------------------------------------ getQualityLabel

\* README, "Quality Score (0-100)".
MaxScore == 100

\* getQualityLabel.
getQualityLabel(s) ==
  IF s >= 90 THEN "Excellent"
  ELSE IF s >= 70 THEN "Good"
  ELSE IF s >= 50 THEN "Fair"
  ELSE "Poor"

\* The bands the README documents for the quality score.
DocumentedLabel(s) ==
  IF s >= 90 THEN "Excellent"
  ELSE IF s >= 70 THEN "Good"
  ELSE IF s >= 50 THEN "Needs Improvement"
  ELSE "Poor"

\* No score rendered.
LabelIdle ==
  /\ score = 0
  /\ label = Null

\* A score arrives and its label is rendered.
RenderLabel(s) ==
  /\ score' = s
  /\ label' = getQualityLabel(s)
  /\ UNCHANGED <<hookVars, authVars, regVars, projVars, uploadVars>>

NextLabel ==
  \E s \in 0..MaxScore : RenderLabel(s)

\* What no specification below is about stays as it starts.
InitOther == InitProj /\ UploadIdle /\ LabelIdle

\* ------------------------------------------------------- specifications

\* The hook on the dashboard of a signed-in user, while its view is on screen
\* and the backend job runs to completion.
Init == InitHook /\ AuthIdle /\ InitReg /\ InitOther

Next == NextHook

Spec == Init /\ [][Next]_vars

\* The same, with the view torn down at any moment and a job that may fail.
NextTeardown ==
  \/ NextHook
  \/ BackendFail
  \/ Unmount

SpecTeardown == Init /\ [][NextTeardown]_vars

\* The hook when no request fails after the mount, every request is answered,
\* every active interval keeps firing and the backend finishes every job.
\* The mount fetch has either not been answered yet or has already failed
\* (no analysis existed when the view opened).
MountFetchFailed ==
  /\ analysis = Null
  /\ status = "not_started"
  /\ loading = FALSE
  /\ error \in {ErrMessage(k) : k \in FailKinds}
  /\ mounted = TRUE
  /\ nRuns = 0
  /\ runReq = [r \in Runs |-> "idle"]
  /\ runPosts = [r \in Runs |-> 0]
  /\ timers = [r \in Runs |-> FALSE]
  /\ statusReqs = [r \in Runs |-> [p \in Phases |-> 0]]
  /\ fetchInFlight = 0
  /\ job = "not_started"
  /\ stopSeen = FALSE
  /\ doneSeen = [r \in Runs |-> FALSE]

InitLive == (InitHook \/ MountFetchFailed) /\ AuthIdle /\ InitReg /\ InitOther

NextLive ==
  \/ startAnalysis
  \/ \E r \in Runs : RunOk(r)
  \/ BackendFinish
  \/ \E r \in Runs : Tick(r)
  \/ \E r \in Runs : ServerStatus(r)
  \/ \E r \in Runs, v \in {"processing", "completed"} : StatusResp(r, v)
  \/ FetchOk

\* The backend finishes a running job; and while a request awaits its answer
\* or an active interval can fire, one of these steps is eventually taken.
Fairness ==
  /\ WF_vars(BackendFinish)
  /\ WF_vars(\/ \E r \in Runs : RunOk(r)
             \/ \E r \in Runs : Tick(r)
             \/ \E r \in Runs : ServerStatus(r)
             \/ \E r \in Runs, v \in {"processing", "completed"} :
                  StatusResp(r, v)
             \/ FetchOk)

SpecLive == InitLive /\ [][NextLive]_vars /\ Fairness

\* The page from its load on: AuthProvider, the Login page, the router.
InitPage == HookIdle /\ InitAuth /\ InitReg /\ InitOther

SpecAuth == InitPage /\ [][NextAuth]_vars

\* The page when the current-user request of the mount effect is eventually
\* answered or fails.
MountAnswered ==
  WF_vars(\E k \in {"200", "401"} \cup FailKinds : MeResp("mount", k))

SpecLoading == InitPage /\ [][NextAuth]_vars /\ MountAnswered

\* What the visitor (or a component on the visitor's behalf) starts: a
\* sign-in, a logout, any other call of the client.
VisitorActs ==
  \/ Login_handleSubmit
  \/ logout
  \/ OtherCall

\* The page when every step that needs no visitor is eventually taken (a
\* current-user request is answered or fails, a rendered <Navigate> moves the
\* router, an assigned window.location.href loads the page) and the visitor
\* eventually leaves the page alone.
AutomaticSteps ==
  /\ WF_vars(\E o \in Callers, k \in {"200", "401"} \cup FailKinds :
               MeResp(o, k))
  /\ WF_vars(Navigate)
  /\ WF_vars(Reload)
  /\ <>[][~VisitorActs]_vars

SpecRoutes == InitPage /\ [][NextAuth]_vars /\ AutomaticSteps

\* The Register page, opened by a visitor without a session.
InitRegister ==
  /\ HookIdle
  /\ path = "/register"
  /\ Mounted(Null)
  /\ InitReg
  /\ InitOther

SpecRegister == InitRegister /\ [][NextReg]_vars

\* One poll loop followed through every answer the backend may give,
\* 'failed' included.
NextPoll ==
  \/ (nRuns < MaxPollRuns /\ startAnalysis)
  \/ \E r \in Runs : RunOk(r)
  \/ \E r \in Runs, k \in FailKinds : RunFail(r, k)
  \/ BackendFinish
  \/ BackendFail
  \/ \E r \in Runs : Tick(r)
  \/ \E r \in Runs : ServerStatus(r)
  \/ \E r \in Runs, v \in BackendStatus : StatusResp(r, v)
  \/ \E r \in Runs, p \in Phases, k \in FailKinds : StatusFail(r, p, k)
  \/ FetchOk
  \/ \E k \in FailKinds : FetchFail(k)

SpecPoll == Init /\ [][NextPoll]_vars

\* The hook opened on a project that has no analysis yet: a results fetch
\* that fails is answered 404.
NextMount ==
  \/ startAnalysis
  \/ \E r \in Runs : RunOk(r)
  \/ \E r \in Runs, k \in FailKinds : RunFail(r, k)
  \/ BackendFinish
  \/ \E r \in Runs : Tick(r)
  \/ \E r \in Runs : ServerStatus(r)
  \/ \E r \in Runs, v \in BackendStatus : StatusResp(r, v)
  \/ \E r \in Runs, p \in Phases, k \in FailKinds : StatusFail(r, p, k)
  \/ FetchOk
  \/ FetchFail(NotFound)

SpecMount == Init /\ [][NextMount]_vars

\* The hook while its view changes the project once; startAnalysis is
\* invoked for the first project only.
NextProject ==
  \/ (projectId = "A" /\ startAnalysis)
  \/ \E r \in Runs : RunOk(r)
  \/ \E r \in Runs, k \in FailKinds : RunFail(r, k)
  \/ BackendFinish
  \/ \E r \in Runs : Tick(r)
  \/ \E r \in Runs : ServerStatus(r)
  \/ \E r \in Runs, v \in BackendStatus : StatusResp(r, v)
  \/ \E r \in Runs, p \in Phases, k \in FailKinds : StatusFail(r, p, k)
  \/ FetchOk
  \/ \E k \in FailKinds : FetchFail(k)
  \/ ChangeProject
  \/ StaleFetchOk
  \/ \E k \in FailKinds : StaleFetchFail(k)

SpecProject == Init /\ [][NextProject]_vars

\* The two request-free helpers on a page where nothing else happens.
InitIdle == HookIdle /\ AuthIdle /\ InitReg /\ InitOther

SpecUpload == InitIdle /\ [][NextUpload]_vars

SpecLabel == InitIdle /\ [][NextLabel]_vars

\* ------------------------------------------------- useAnalysis: properties

\* A step in which the hook sends a GET /analysis/status.
IssuesStatusRequest ==
  \E r \in Runs : statusReqs'[r]["sent"] = statusReqs[r]["sent"] + 1

\* A step in which the hook sends a GET /analysis/results.
IssuesResultsFetch == fetchInFlight' = fetchInFlight + 1

\* ... and does so in a callback of the interval of invocation r, which is
\* the callback that took a status answer of r.
IssuesResultsFetchFor(r) ==
  IssuesResultsFetch /\ statusReqs'[r] # statusReqs[r]

\* C2: once a 'completed' answer has been handled or a status request has
\* failed, the hook sends no status request until startAnalysis is invoked
\* again.
C2_NoStatusRequestAfterStop ==
  [][(stopSeen /\ nRuns' = nRuns) => ~IssuesStatusRequest]_vars

\* C3: for each invocation, the step in which its poll loop first handles
\* 'completed' cancels its interval and issues a results fetch, and no other
\* step issues a results fetch for that invocation: exactly one per run.
C3_ExactlyOneFetchPerRun ==
  [][\A r \in Runs :
       IF ~doneSeen[r] /\ doneSeen'[r]
         THEN IssuesResultsFetchFor(r) /\ ~timers'[r]
         ELSE ~IssuesResultsFetchFor(r)]_vars

\* C4: after the owning view is torn down the hook sends neither a status
\* request nor a results fetch.
C4_NoRequestAfterTeardown ==
  [][~mounted => (~IssuesStatusRequest /\ ~IssuesResultsFetch)]_vars

\* C6: handling a failed status request cancels the interval of its loop,
\* stores the failure's message in error, sets loading to false and leaves
\* status as it was.
C6_StatusFailureHandling ==
  [][\A r \in Runs :
       statusReqs'[r] # statusReqs[r] =>
         \A p \in Phases, k \in FailKinds :
           StatusFail(r, p, k) =>
             /\ ~timers'[r]
             /\ error' = ErrMessage(k)
             /\ loading' = FALSE
             /\ status' = status]_vars

\* C6 witness: the interval of invocation 1 was cancelled by a failure (its
\* loop never saw 'completed'), the message is stored and status is still
\* 'processing'.
C6_Witness ==
  /\ runReq[1] = "ok"
  /\ ~timers[1]
  /\ ~doneSeen[1]
  /\ status = "processing"
  /\ error = ErrMessage("network")
  /\ ~loading

\* C8: every invocation of startAnalysis has issued exactly one run request;
\* until that request succeeds the invocation has no interval and no status
\* request, and while no run request has succeeded status is 'not_started';
\* the step that handles the success sets status to 'processing' and starts
\* the interval.
C8_StartAnalysis ==
  /\ [](/\ \A r \in Runs : runPosts[r] = (IF r <= nRuns THEN 1 ELSE 0)
        /\ \A r \in Runs :
             runReq[r] # "ok" =>
               ~timers[r] /\ \A p \in Phases : statusReqs[r][p] = 0
        /\ (\A r \in Runs : runReq[r] # "ok") => status = "not_started")
  /\ [][\A r \in Runs :
          RunOk(r) => status' = "processing" /\ timers'[r]]_vars

\* C8 witness: the run request of invocation 1 succeeded, its interval runs
\* and has issued a status request.
C8_Witness ==
  /\ runReq[1] = "ok"
  /\ timers[1]
  /\ status = "processing"
  /\ statusReqs[1]["sent"] = 1

\* C9: when the run request of an invocation has succeeded, no request fails
\* and the backend finishes the job, then eventually the interval of that
\* invocation is cancelled, analysis holds the fetched results and loading is
\* false.
C9_EventuallyResults ==
  \A r \in Runs :
    (runReq[r] = "ok") ~> (~timers[r] /\ analysis = Results /\ ~loading)

\* C9 witness: invocation 1 ran to the end: its loop saw 'completed', the
\* interval is off, every results fetch was answered, the results are stored.
C9_Witness ==
  /\ error = Null
  /\ doneSeen[1]
  /\ ~timers[1]
  /\ fetchInFlight = 0
  /\ analysis = Results
  /\ ~loading

\* C10: with a single invocation of startAnalysis, status never goes from
\* 'completed' back to 'processing' or 'not_started'.
C10_StatusOnlyForward ==
  [][(nRuns' = 1 /\ status = "completed") =>
       status' \notin {"processing", "not_started"}]_vars

\* C11: in every reachable state at most one polling interval of the hook
\* instance is active, whatever the sequence of startAnalysis invocations.
C11_AtMostOneTimer ==
  Cardinality({r \in Runs : timers[r]}) <= 1

C15_RunFailure ==
  /\ [](\A r \in Runs :
         runReq[r] = "failed" =>
           /\ ~timers[r]
           /\ \A p \in Phases : statusReqs[r][p] = 0
           /\ runPosts[r] = 1)
  /\ [][\A r \in Runs :
         (runReq[r] = "pending" /\ runReq'[r] = "failed") =>
           /\ status' = status
           /\ analysis' = analysis
           /\ timers' = timers
           /\ statusReqs' = statusReqs
           /\ fetchInFlight' = fetchInFlight
           /\ runPosts' = runPosts
           /\ error' \in {ErrMessage(k) : k \in FailKinds}
           /\ loading' = FALSE
      ]_vars

\* The run request of the first invocation has failed.
C15_Witness ==
  /\ runReq[1] = "failed"
  /\ error = ErrMessage("500")
  /\ ~loading
  /\ status = "not_started"

\* C20: once the fetch of the mount effect has failed (no analysis yet) and
\* nothing else has happened, error is null, analysis is null, status is
\* 'not_started' and loading is false.
C20_MountFetchFailureIsSilent ==
  (nRuns = 0 /\ fetchInFlight = 0 /\ analysis = Null) =>
    (error = Null /\ status = "not_started" /\ ~loading)

\* C19: after the change of projectId, no step sends a status request in an
\* interval of the earlier project, and no step that handles an answer to a
\* request of the earlier project (status or results) changes status or
\* analysis.
C19_NoStaleProject ==
  [][/\ \A r \in 1..oldRuns :
          /\ statusReqs'[r]["sent"] <= statusReqs[r]["sent"]
          /\ statusReqs'[r] # statusReqs[r] =>
                (status' = status /\ analysis' = analysis)
     /\ oldFetches' < oldFetches =>
          (status' = status /\ analysis' = analysis)
    ]_vars

\* -------------------------------------------------- uploadFiles: property

\* C13: every call of uploadFiles, with an empty list too, hands the client
\* exactly one request: a POST to /projects/{projectId}/upload whose form
\* data holds one 'files' part per file of the list, in the list's order.
C13_OnePostPerCall ==
  /\ Len(posts) = Len(uploadCalls)
  /\ \A i \in DOMAIN uploadCalls :
       LET c == uploadCalls[i] IN
         /\ posts[i].method = "POST"
         /\ posts[i].url = "/projects/" \o c.projectId \o "/upload"
         /\ Len(posts[i].data) = Len(c.files)
         /\ \A n \in DOMAIN c.files :
              posts[i].data[n] = <<"files", c.files[n]>>

\* One call with the empty list and one with two different files.
C13_Witness ==
  \E i, j \in DOMAIN posts :
    /\ uploadCalls[i].files = <<>>
    /\ posts[i].data = <<>>
    /\ uploadCalls[j].files = <<"f1", "f2">>

\* ---------------------------------------------- getQualityLabel: property

\* C16: the label rendered for a score from 0 to 100 is the band the README
\* documents for it.
C16_LabelIsDocumentedBand ==
  label # Null => label = DocumentedLabel(score)

\* --------------------------------------------- session and pages: properties

\* C1: a 401 response leaves no token in storage and its handling assigns
\* window.location.href exactly once.
C1_One401OneRedirect ==
  lastResp.kind = "401" => (token = Null /\ respRedirects = 1)

\* C7: a failure that is not a 401 neither removes the token nor assigns
\* window.location.href.
C7_OtherFailureKeepsSession ==
  lastResp.kind \in FailKinds => (~respCleared /\ respRedirects = 0)

\* C5: a submit of the registration form with passwords that differ, or with
\* a password of fewer than 8 characters, sets an error message, sends no
\* register request, leaves loading and success as they are and schedules no
\* navigation.
C5_InvalidPasswordBlocksSubmit ==
  [][(Register_handleSubmit
        /\ (formPassword # formConfirm \/ Len(formPassword) < 8)) =>
       /\ regError' # ""
       /\ regInFlight' = regInFlight
       /\ regLoading' = regLoading
       /\ regSuccess' = regSuccess
       /\ navTimers' = navTimers
       /\ path' = path]_vars

\* C5 witness: a submit of two equal passwords of 7 characters was blocked.
C5_Witness ==
  /\ Len(formPassword) = 7
  /\ formPassword = formConfirm
  /\ regError = "Password must be at least 8 characters"
  /\ regInFlight = 0
  /\ ~regLoading
  /\ ~regSuccess
  /\ navTimers = 0

\* A step in which the client sends a request: one more request in flight, or
\* the mount effect's request right after a reload.
SendsRequest ==
  \/ loginReqs' = loginReqs + 1
  \/ otherReqs' = otherReqs + 1
  \/ \E o \in Callers : meReqs'[o] = meReqs[o] + 1
  \/ reloadPending /\ ~reloadPending' /\ meReqs'["mount"] = 1

\* C12 as stated: every request the client sends carries an Authorization
\* header 'Bearer <token>'.
C12_EveryRequestCarriesBearer ==
  [][SendsRequest => sentAuth' \in {"Bearer " \o t : t \in Tokens}]_vars

\* C12: a request sent while localStorage holds a token carries
\* 'Bearer <token>' with the token stored at that moment; a request sent
\* while it holds none carries no Authorization header.
C12_HeaderIsStoredToken ==
  [][SendsRequest =>
       sentAuth' = IF token' # Null THEN "Bearer " \o token' ELSE NoHeader
    ]_vars

\* The current-user request of a sign-in went out with the token the
\* sign-in has just stored.
C12_Witness ==
  /\ meReqs["login"] = 1
  /\ token = "t2"
  /\ sentAuth = "Bearer t2"

\* C17: on /dashboard the children of ProtectedRoute are rendered exactly
\* when the context's loading is false and isAuthenticated is true; while
\* loading is true the spinner is rendered (no children, no redirect); with
\* loading false and no user the router is sent to /login.
C17_ProtectedRoute ==
  path = "/dashboard" =>
    /\ Element = Children <=> (~authLoading /\ user # Null)
    /\ authLoading => (Element = Spinner /\ RouteTarget = path)
    /\ (~authLoading /\ user = Null) =>
         (Element = "/login" /\ RouteTarget = "/login")

\* The dashboard is rendered after the current-user request has answered.
C17_Witness ==
  /\ path = "/dashboard"
  /\ Element = Children
  /\ lastResp = [call |-> "me", kind |-> "200"]

\* C18: in the step in which the context login() resolves (the Login page
\* navigates to /dashboard), a token is in storage and user is non-null,
\* whatever the current-user request has answered.
C18_LoginResolvedMeansSignedIn ==
  [][\A k \in {"200", "401"} \cup FailKinds :
       MeResp("login", k) => (token' # Null /\ user' # Null)]_vars

\* C21: the loading flag is true only while the checkAuth of the mount
\* effect awaits its request (with no token stored it is false from the
\* start); the step that ends that checkAuth sets it to false whatever the
\* outcome; no step of a loaded page sets it back to true; and when that
\* request is eventually answered or fails, a page that shows the spinner
\* eventually stops showing it.
C21_LoadingLifecycle ==
  /\ [](authLoading => meReqs["mount"] > 0)
  /\ [][(meReqs'["mount"] < meReqs["mount"]) => ~authLoading']_vars
  /\ [][(~authLoading /\ authLoading') => (reloadPending /\ ~reloadPending')
      ]_vars
  /\ authLoading ~> ~authLoading
  /\ (Element = Spinner) ~> (Element # Spinner)

\* The current-user request of the mount effect has failed and the loading
\* flag is false.
C21_Witness ==
  /\ lastResp = [call |-> "me", kind |-> "network"]
  /\ meReqs = [o \in Callers |-> 0]
  /\ loginReqs = 0
  /\ ~authLoading
  /\ user = Null

\* The page has settled: no reload is pending, no current-user request is
\* awaited, and the route on screen renders no <Navigate>.
Settled ==
  /\ ~reloadPending
  /\ meReqs = [o \in Callers |-> 0]
  /\ RouteTarget = path

\* C22: from every stored token and every requested path, and after every
\* sign-in, logout or 401, the automatic navigations come to an end: once
\* the visitor leaves the page alone it settles on one rendered route for
\* good, never cycling between /login and /dashboard.
C22_NavigationSettles ==
  <>[]Settled

\* A chain under way: the token found on /dashboard has been rejected, so
\* ProtectedRoute renders <Navigate to="/login"> while the reload to /login
\* is pending as well.
C22_Witness ==
  /\ path = "/dashboard"
  /\ Element = "/login"
  /\ reloadPending
  /\ lastResp = [call |-> "me", kind |-> "401"]
  /\ ~Settled

====
